---------------------------- MODULE Spec2Model ----------------------------
(***************************************************************************)
(* Model of the PDF import of src/src/App.vue: the drop handlers, the      *)
(* asynchronous importPdf / pdfToMarkdown runs, and the layout-to-Markdown *)
(* functions they apply (row clustering, line assembly, headings, tables). *)
(*                                                                         *)
(* Text is a sequence of one-character strings; the six bullet glyphs of   *)
(* normalizeListPrefix are written "u2022", "u25E6", ... .  Numbers are    *)
(* exact rationals [n, d] in lowest terms (the code's doubles, without     *)
(* their rounding error).                                                  *)
(***************************************************************************)
EXTENDS Integers, Sequences, FiniteSets, TLC

VARIABLES
    mdInput,         \* ref mdInput: the editor content
    isImportingPdf,  \* ref isImportingPdf
    importStatus,    \* ref importStatus
    importError,     \* ref importError
    dragDepth,       \* ref dragDepth
    calls,           \* the importPdf calls made so far, each with its position
    arg,             \* function checks: the arguments of the function applied
    result           \* function checks: what it returned, NoResult before

vars == <<mdInput, isImportingPdf, importStatus, importError, dragDepth,
          calls, arg, result>>

appVars == <<mdInput, isImportingPdf, importStatus, importError, dragDepth, calls>>
fnVars == <<arg, result>>

---------------------------------------------------------------------------
(* Numbers *)

Abs(n) == IF n < 0 THEN -n ELSE n

RECURSIVE GCD(_, _)
GCD(a, b) == IF b = 0 THEN a ELSE GCD(b, a % b)

\* the rational n/d (d # 0) in lowest terms with a positive denominator
R(n, d) ==
    LET g == GCD(Abs(n), Abs(d))
        s == IF d < 0 THEN -1 ELSE 1
    IN  [n |-> (s * n) \div g, d |-> (s * d) \div g]

RInt(n) == [n |-> n, d |-> 1]
Zero == RInt(0)
RAdd(a, b) == R(a.n * b.d + b.n * a.d, a.d * b.d)
RSub(a, b) == R(a.n * b.d - b.n * a.d, a.d * b.d)
RMul(a, b) == R(a.n * b.n, a.d * b.d)
RDiv(a, b) == R(a.n * b.d, a.d * b.n)
RLt(a, b) == a.n * b.d < b.n * a.d
RLe(a, b) == a.n * b.d <= b.n * a.d
RMax(a, b) == IF RLt(a, b) THEN b ELSE a
RAbs(a) == [n |-> Abs(a.n), d |-> a.d]
\* Math.round: the nearest integer, a tie going up
RRound(a) == RInt((2 * a.n + a.d) \div (2 * a.d))

---------------------------------------------------------------------------
(* Text *)

\* what the regular expressions' \s matches, among the characters modelled
IsSpace(c) == c \in {" ", "\t", "\n"}
IsDigit(c) == c \in {"0", "1", "2", "3", "4", "5", "6", "7", "8", "9"}

RECURSIVE TrimStart(_)
TrimStart(s) ==
    IF s # <<>> /\ IsSpace(Head(s)) THEN TrimStart(Tail(s)) ELSE s

RECURSIVE TrimEnd(_)
TrimEnd(s) ==
    IF s # <<>> /\ IsSpace(s[Len(s)]) THEN TrimEnd(SubSeq(s, 1, Len(s) - 1)) ELSE s

\* String.prototype.trim
Trim(s) == TrimEnd(TrimStart(s))

\* .replace(/\s+/g, ' '): every run of whitespace becomes one space
RECURSIVE CollapseWhitespace(_)
CollapseWhitespace(s) ==
    IF s = <<>> THEN <<>>
    ELSE IF IsSpace(Head(s))
         THEN <<" ">> \o CollapseWhitespace(TrimStart(s))
         ELSE <<Head(s)>> \o CollapseWhitespace(Tail(s))

\* .replace(/[ \t]+$/g, ''): trailing spaces and tabs removed
RECURSIVE StripTrailingBlanks(_)
StripTrailingBlanks(s) ==
    IF s # <<>> /\ s[Len(s)] \in {" ", "\t"}
    THEN StripTrailingBlanks(SubSeq(s, 1, Len(s) - 1))
    ELSE s

RECURSIVE DropSpaces(_)
DropSpaces(s) == IF s # <<>> /\ Head(s) = " " THEN DropSpaces(Tail(s)) ELSE s

\* .replace(/[ ]{2,}/g, ' '): every run of two or more plain spaces becomes one
RECURSIVE CollapseSpaces(_)
CollapseSpaces(s) ==
    IF s = <<>> THEN <<>>
    ELSE IF Head(s) = " "
         THEN <<" ">> \o CollapseSpaces(DropSpaces(s))
         ELSE <<Head(s)>> \o CollapseSpaces(Tail(s))

RECURSIVE DropTabs(_)
DropTabs(s) == IF s # <<>> /\ Head(s) = "\t" THEN DropTabs(Tail(s)) ELSE s

\* .replace(/\t+/g, ' '): every run of tabs becomes one space
RECURSIVE TabsToSpace(_)
TabsToSpace(s) ==
    IF s = <<>> THEN <<>>
    ELSE IF Head(s) = "\t"
         THEN <<" ">> \o TabsToSpace(DropTabs(s))
         ELSE <<Head(s)>> \o TabsToSpace(Tail(s))

\* Array.prototype.join
RECURSIVE Join(_, _)
Join(parts, sep) ==
    IF parts = <<>> THEN <<>>
    ELSE IF Len(parts) = 1 THEN parts[1]
    ELSE parts[1] \o sep \o Join(Tail(parts), sep)

\* text.split(sep) for a one-character separator: always at least one part
RECURSIVE Split(_, _)
Split(s, sep) ==
    IF \A k \in 1..Len(s) : s[k] # sep THEN <<s>>
    ELSE LET k == CHOOSE j \in 1..Len(s) :
                      s[j] = sep /\ \A h \in 1..(j - 1) : s[h] # sep
         IN  <<SubSeq(s, 1, k - 1)>> \o Split(SubSeq(s, k + 1, Len(s)), sep)

Includes(s, c) == \E k \in 1..Len(s) : s[k] = c

\* plain.split(/\s+/).length for a trimmed, non-empty text: its words
WordCount(s) ==
    Cardinality({k \in 1..Len(s) :
        ~IsSpace(s[k]) /\ (k = 1 \/ IsSpace(s[k - 1]))})

Repeat(c, n) == [k \in 1..n |-> c]

---------------------------------------------------------------------------
(* Row clustering and line assembly *)

\* transform[k] (k from 0) of a raw item; a missing entry reads as 0 under ||
TransformAt(rawItem, k) ==
    IF k + 1 <= Len(rawItem.transform) THEN rawItem.transform[k + 1] ELSE Zero

\* a || b on numbers: b when a is 0 (or missing, which is modelled as 0)
OrElse(a, b) == IF a = Zero THEN b ELSE a

\* mutant: buckets 4 wide
quantizeY_Wide(value) == RMul(RRound(RDiv(value, RInt(4))), RInt(4))

quantizeY(value) == RMul(RRound(RDiv(value, RInt(2))), RInt(2))

\* String(rawItem.str || '').replace(/\s+/g, ' ').trim()
SegmentText(rawItem) == Trim(CollapseWhitespace(rawItem.str))

\* the PdfTextSegment pushed for a raw item whose text is not empty
Segment(rawItem) ==
    LET text == SegmentText(rawItem)
    IN  [text |-> text,
         x |-> OrElse(TransformAt(rawItem, 4), Zero),
         width |-> OrElse(rawItem.width, RMax(RInt(4), RInt(Len(text) * 4))),
         fontSize |-> RAbs(OrElse(TransformAt(rawItem, 0),
                             OrElse(TransformAt(rawItem, 3),
                               OrElse(rawItem.height, RInt(12)))))]

ItemY(rawItem) == OrElse(TransformAt(rawItem, 5), Zero)

\* mutant: a run whose text is empty is not skipped
RECURSIVE RowMap_KeepsEmpty(_)
RowMap_KeepsEmpty(items) ==
    IF items = <<>> THEN <<>>
    ELSE LET before == RowMap_KeepsEmpty(SubSeq(items, 1, Len(items) - 1))
             rawItem == items[Len(items)]
             yKey == quantizeY(ItemY(rawItem))
         IN  IF \E k \in 1..Len(before) : before[k].y = yKey
             THEN [k \in 1..Len(before) |->
                      IF before[k].y = yKey
                      THEN [before[k] EXCEPT !.segments = Append(@, Segment(rawItem))]
                      ELSE before[k]]
             ELSE Append(before, [y |-> yKey, segments |-> <<Segment(rawItem)>>])

\* rowMap after the loop over textContent.items: the entries in the order
\* their keys were first set, each with its segments in arrival order
RECURSIVE RowMap(_)
RowMap(items) ==
    IF items = <<>> THEN <<>>
    ELSE LET before == RowMap(SubSeq(items, 1, Len(items) - 1))
             rawItem == items[Len(items)]
             yKey == quantizeY(ItemY(rawItem))
         IN  IF SegmentText(rawItem) = <<>> THEN before
             ELSE IF \E k \in 1..Len(before) : before[k].y = yKey
             THEN [k \in 1..Len(before) |->
                      IF before[k].y = yKey
                      THEN [before[k] EXCEPT !.segments = Append(@, Segment(rawItem))]
                      ELSE before[k]]
             ELSE Append(before, [y |-> yKey, segments |-> <<Segment(rawItem)>>])

\* mutant: a sort that puts a segment before those of equal x
RECURSIVE SortSegments_Unstable(_)
SortSegments_Unstable(segments) ==
    IF segments = <<>> THEN <<>>
    ELSE LET sorted == SortSegments_Unstable(SubSeq(segments, 1, Len(segments) - 1))
             last == segments[Len(segments)]
             keep == Cardinality({k \in 1..Len(sorted) : RLt(sorted[k].x, last.x)})
         IN  SubSeq(sorted, 1, keep) \o <<last>> \o SubSeq(sorted, keep + 1, Len(sorted))

\* segments.sort((a, b) => a.x - b.x): Array.prototype.sort is stable
RECURSIVE SortSegments(_)
SortSegments(segments) ==
    IF segments = <<>> THEN <<>>
    ELSE LET sorted == SortSegments(SubSeq(segments, 1, Len(segments) - 1))
             last == segments[Len(segments)]
             keep == Cardinality({k \in 1..Len(sorted) : RLe(sorted[k].x, last.x)})
         IN  SubSeq(sorted, 1, keep) \o <<last>> \o SubSeq(sorted, keep + 1, Len(sorted))

\* .sort((a, b) => b.y - a.y)
RECURSIVE SortRows(_)
SortRows(rows) ==
    IF rows = <<>> THEN <<>>
    ELSE LET sorted == SortRows(SubSeq(rows, 1, Len(rows) - 1))
             last == rows[Len(rows)]
             keep == Cardinality({k \in 1..Len(sorted) : RLe(last.y, sorted[k].y)})
         IN  SubSeq(sorted, 1, keep) \o <<last>> \o SubSeq(sorted, keep + 1, Len(sorted))

\* const rows: the entries of rowMap, each row's segments sorted by x, rows
\* sorted by y descending
PageRows(items) ==
    LET entries == RowMap(items)
    IN  SortRows([k \in 1..Len(entries) |->
            [y |-> entries[k].y, segments |-> SortSegments(entries[k].segments)]])

\* mutant: a gap equal to its threshold already counts
Separator_Inclusive(gap, previousCharWidth) ==
    LET tabThreshold == RMax(RInt(24), RMul(previousCharWidth, RInt(6)))
        spaceThreshold == RMax(RInt(6), RMul(previousCharWidth, R(175, 100)))
    IN  IF RLe(tabThreshold, gap) THEN <<"\t">>
        ELSE IF RLe(spaceThreshold, gap) THEN <<" ">>
        ELSE <<>>

\* the separator the forEach callback puts before a segment that is not the
\* first of its row
Separator(gap, previousCharWidth) ==
    LET tabThreshold == RMax(RInt(24), RMul(previousCharWidth, RInt(6)))
        spaceThreshold == RMax(RInt(6), RMul(previousCharWidth, R(175, 100)))
    IN  IF RLt(tabThreshold, gap) THEN <<"\t">>
        ELSE IF RLt(spaceThreshold, gap) THEN <<" ">>
        ELSE <<>>

\* text and hasTabs after row.segments.forEach
RECURSIVE AssembleRow(_)
AssembleRow(segments) ==
    IF segments = <<>> THEN [text |-> <<>>, hasTabs |-> FALSE]
    ELSE IF Len(segments) = 1
    THEN [text |-> segments[1].text, hasTabs |-> FALSE]
    ELSE LET before == AssembleRow(SubSeq(segments, 1, Len(segments) - 1))
             previous == segments[Len(segments) - 1]
             segment == segments[Len(segments)]
             previousEnd == RAdd(previous.x, previous.width)
             previousCharWidth ==
                 RDiv(previous.width, RInt(IF Len(previous.text) > 1
                                           THEN Len(previous.text) ELSE 1))
             sep == Separator(RSub(segment.x, previousEnd), previousCharWidth)
         IN  [text |-> before.text \o sep \o segment.text,
              hasTabs |-> before.hasTabs \/ sep = <<"\t">>]

RECURSIVE SumFontSizes(_)
SumFontSizes(segments) ==
    IF segments = <<>> THEN Zero
    ELSE RAdd(segments[1].fontSize, SumFontSizes(Tail(segments)))

\* what the loop body computes for rows[i]: the line pushed unless its text
\* normalizes to nothing
RowLine(rows, i) ==
    LET row == rows[i]
        assembled == AssembleRow(row.segments)
        normalized == CollapseSpaces(StripTrailingBlanks(assembled.text))
        avgFontSize == RDiv(SumFontSizes(row.segments), RInt(Len(row.segments)))
        rowGap == IF i + 1 <= Len(rows) THEN RAbs(RSub(row.y, rows[i + 1].y)) ELSE Zero
    IN  [text |-> normalized,
         hasTabs |-> assembled.hasTabs,
         fontSize |-> avgFontSize,
         breakAfter |-> RLt(RMul(avgFontSize, R(17, 10)), rowGap)]

\* lines after the loop has handled rows[i..]; "if (!normalized) continue"
RECURSIVE RowLines(_, _)
RowLines(rows, i) ==
    IF i > Len(rows) THEN <<>>
    ELSE (IF RowLine(rows, i).text = <<>> THEN <<>> ELSE <<RowLine(rows, i)>>)
         \o RowLines(rows, i + 1)

extractLinesFromPdfTextContent(content) == RowLines(PageRows(content.items), 1)

---------------------------------------------------------------------------
(* Headings, list markers, tables *)

getMedianSorted(sorted) ==
    LET middle == Len(sorted) \div 2
    IN  IF Len(sorted) % 2 = 0
        THEN RDiv(RAdd(sorted[middle], sorted[middle + 1]), RInt(2))
        ELSE sorted[middle + 1]

\* [...values].sort((a, b) => a - b)
RECURSIVE SortNumbers(_)
SortNumbers(values) ==
    IF values = <<>> THEN <<>>
    ELSE LET sorted == SortNumbers(SubSeq(values, 1, Len(values) - 1))
             last == values[Len(values)]
             keep == Cardinality({k \in 1..Len(sorted) : RLe(sorted[k], last)})
         IN  SubSeq(sorted, 1, keep) \o <<last>> \o SubSeq(sorted, keep + 1, Len(sorted))

getMedian(values) ==
    IF values = <<>> THEN Zero ELSE getMedianSorted(SortNumbers(values))

RECURSIVE DropDigits(_)
DropDigits(s) == IF s # <<>> /\ IsDigit(Head(s)) THEN DropDigits(Tail(s)) ELSE s

\* /^[-*]\s+/.test(plain)
StartsWithBullet(plain) ==
    Len(plain) >= 2 /\ plain[1] \in {"-", "*"} /\ IsSpace(plain[2])

\* /^\d+[\.\)]\s+/.test(plain)
StartsWithNumber(plain) ==
    LET rest == DropDigits(plain)
    IN  /\ Len(rest) < Len(plain)
        /\ Len(rest) >= 2
        /\ rest[1] \in {".", ")"}
        /\ IsSpace(rest[2])

HeadingRatio(fontSize, bodyFontSize) == RDiv(fontSize, RMax(bodyFontSize, RInt(1)))

looksLikeHeading(text, fontSize, bodyFontSize) ==
    LET plain == Trim(text)
    IN  /\ plain # <<>>
        /\ ~(Len(plain) > 90)
        /\ ~StartsWithBullet(plain)
        /\ ~StartsWithNumber(plain)
        /\ ~Includes(plain, "\t")
        /\ ~RLt(HeadingRatio(fontSize, bodyFontSize), R(128, 100))
        /\ WordCount(plain) <= 14

headingLevel(fontSize, bodyFontSize) ==
    LET ratio == HeadingRatio(fontSize, bodyFontSize)
    IN  IF RLe(R(195, 100), ratio) THEN 1
        ELSE IF RLe(R(165, 100), ratio) THEN 2
        ELSE 3

BulletGlyphs == {"u2022", "u25E6", "u25AA", "u25B8", "u25BA", "u2023"}

\* .replace(/^[bullet glyphs]\s*/u, '- ')
ReplaceBulletGlyph(text) ==
    IF text # <<>> /\ Head(text) \in BulletGlyphs
    THEN <<"-", " ">> \o TrimStart(Tail(text))
    ELSE text

\* .replace(/^\((\d+)\)\s+/, '$1. ')
ReplaceParenNumber(text) ==
    IF text # <<>> /\ Head(text) = "("
    THEN LET rest == DropDigits(Tail(text))
             digits == SubSeq(text, 2, Len(text) - Len(rest))
         IN  IF /\ digits # <<>>
                /\ Len(rest) >= 2
                /\ rest[1] = ")"
                /\ IsSpace(rest[2])
             THEN digits \o <<".", " ">> \o TrimStart(Tail(rest))
             ELSE text
    ELSE text

normalizeListPrefix(text) == ReplaceParenNumber(ReplaceBulletGlyph(text))

splitTabbedColumns(text) ==
    LET parts == Split(text, "\t")
    IN  [k \in 1..Len(parts) |-> Trim(parts[k])]

fallbackTabbedBlock(block) ==
    [k \in 1..Len(block) |->
        normalizeListPrefix(Trim(CollapseSpaces(TabsToSpace(block[k].text))))]

\* cell.replace(/\|/g, '\\|')
RECURSIVE EscapePipes(_)
EscapePipes(cell) ==
    IF cell = <<>> THEN <<>>
    ELSE (IF Head(cell) = "|" THEN <<"\\", "|">> ELSE <<Head(cell)>>)
         \o EscapePipes(Tail(cell))

Min(S) == CHOOSE m \in S : \A n \in S : m <= n
Max(S) == CHOOSE m \in S : \A n \in S : n <= m

\* `| ${row.join(' | ')} |`
TableRow(row) == <<"|", " ">> \o Join(row, <<" ", "|", " ">>) \o <<" ", "|">>

\* mutant: a table whose short rows are not padded
tabbedBlockToMarkdownTable_Unpadded(block) ==
    LET rows == [k \in 1..Len(block) |-> splitTabbedColumns(block[k].text)]
        minCols == Min({Len(rows[k]) : k \in 1..Len(rows)})
        maxCols == Max({Len(rows[k]) : k \in 1..Len(rows)})
        escaped == [k \in 1..Len(rows) |->
            [c \in 1..Len(rows[k]) |-> Trim(EscapePipes(rows[k][c]))]]
        divider == TableRow([c \in 1..maxCols |-> <<"-", "-", "-">>])
        body == [k \in 1..(Len(escaped) - 1) |-> TableRow(escaped[k + 1])]
    IN  IF Len(rows) < 2 \/ maxCols < 2 \/ maxCols - minCols > 1
        THEN fallbackTabbedBlock(block)
        ELSE <<TableRow(escaped[1]), divider>> \o body

tabbedBlockToMarkdownTable(block) ==
    LET rows == [k \in 1..Len(block) |-> splitTabbedColumns(block[k].text)]
        minCols == Min({Len(rows[k]) : k \in 1..Len(rows)})
        maxCols == Max({Len(rows[k]) : k \in 1..Len(rows)})
        colCount == maxCols
        paddedRows == [k \in 1..Len(rows) |->
            [c \in 1..colCount |->
                IF c <= Len(rows[k]) THEN Trim(EscapePipes(rows[k][c])) ELSE <<>>]]
        header == TableRow(paddedRows[1])
        divider == TableRow([c \in 1..colCount |-> <<"-", "-", "-">>])
        body == [k \in 1..(Len(paddedRows) - 1) |-> TableRow(paddedRows[k + 1])]
    IN  IF Len(rows) < 2 \/ maxCols < 2 \/ maxCols - minCols > 1
        THEN fallbackTabbedBlock(block)
        ELSE <<header, divider>> \o body

---------------------------------------------------------------------------
(* Markdown of a page and of a document *)

\* mutant: the while loop never takes a following line into the block
BlockEnd_Single(lines, i) == i

\* the index of the last line of the block that starts at line i: the while loop
RECURSIVE BlockEnd(_, _)
BlockEnd(lines, i) ==
    IF i + 1 <= Len(lines) /\ lines[i + 1].hasTabs THEN BlockEnd(lines, i + 1) ELSE i

\* what one pass of the loop body pushes to out for a line without tabs
RenderLine(line, bodyFontSize) ==
    LET normalized == normalizeListPrefix(Trim(line.text))
    IN  IF normalized = <<>> THEN << <<>> >>
        ELSE (IF looksLikeHeading(normalized, line.fontSize, bodyFontSize)
              THEN << Repeat("#", headingLevel(line.fontSize, bodyFontSize))
                      \o <<" ">> \o normalized >>
              ELSE << normalized >>)
             \o (IF line.breakAfter THEN << <<>> >> ELSE <<>>)

\* out after the loop has run from index i to the end
RECURSIVE RenderFrom(_, _, _)
RenderFrom(lines, i, bodyFontSize) ==
    IF i > Len(lines) THEN <<>>
    ELSE IF lines[i].hasTabs
    THEN tabbedBlockToMarkdownTable(SubSeq(lines, i, BlockEnd(lines, i)))
         \o << <<>> >>
         \o RenderFrom(lines, BlockEnd(lines, i) + 1, bodyFontSize)
    ELSE RenderLine(lines[i], bodyFontSize) \o RenderFrom(lines, i + 1, bodyFontSize)

RECURSIVE DropNewlines(_)
DropNewlines(s) == IF s # <<>> /\ Head(s) = "\n" THEN DropNewlines(Tail(s)) ELSE s

\* the index of the first newline of s, 0 when it has none
FirstNewline(s) ==
    LET at == {k \in 1..Len(s) : s[k] = "\n"}
    IN  IF at = {} THEN 0 ELSE CHOOSE k \in at : \A h \in at : k <= h

\* .replace(/\n{3,}/g, '\n\n')
RECURSIVE CollapseNewlines(_)
CollapseNewlines(s) ==
    LET k == FirstNewline(s)
    IN  IF k = 0 THEN s
        ELSE LET rest == DropNewlines(SubSeq(s, k, Len(s)))
                 run == Len(s) - (k - 1) - Len(rest)
             IN  SubSeq(s, 1, k - 1)
                 \o (IF run >= 3 THEN <<"\n", "\n">> ELSE Repeat("\n", run))
                 \o CollapseNewlines(rest)

\* .replace(/[ \t]+\n/g, '\n'): the blanks that end at a newline go
RECURSIVE StripBlanksBeforeNewline(_)
StripBlanksBeforeNewline(s) ==
    LET k == FirstNewline(s)
    IN  IF k = 0 THEN s
        ELSE StripTrailingBlanks(SubSeq(s, 1, k - 1)) \o <<"\n">>
             \o StripBlanksBeforeNewline(SubSeq(s, k + 1, Len(s)))

\* mutant: blanks before a newline are left in place
linesToMarkdown_BlanksKept(lines, bodyFontSize) ==
    Trim(CollapseNewlines(Join(RenderFrom(lines, 1, bodyFontSize), <<"\n">>)))

linesToMarkdown(lines, bodyFontSize) ==
    Trim(StripBlanksBeforeNewline(CollapseNewlines(
        Join(RenderFrom(lines, 1, bodyFontSize), <<"\n">>))))

\* pages.flat()
RECURSIVE Flat(_)
Flat(pages) == IF pages = <<>> THEN <<>> ELSE Head(pages) \o Flat(Tail(pages))

\* allLines.filter((line) => line.text.length >= 20 && !line.hasTabs)
RECURSIVE BodyFontCandidates(_)
BodyFontCandidates(allLines) ==
    IF allLines = <<>> THEN <<>>
    ELSE (IF Len(Head(allLines).text) >= 20 /\ ~Head(allLines).hasTabs
          THEN <<Head(allLines)>> ELSE <<>>)
         \o BodyFontCandidates(Tail(allLines))

\* mutant: the median is taken over all lines, long or short, tabbed or not
BodyFontSize_AllLines(allLines) ==
    OrElse(getMedian([k \in 1..Len(allLines) |-> allLines[k].fontSize]), RInt(12))

\* const bodyFontSize of pdfToMarkdown
BodyFontSize(allLines) ==
    LET candidates == BodyFontCandidates(allLines)
        chosen == IF Len(candidates) > 0 THEN candidates ELSE allLines
        median == getMedian([k \in 1..Len(chosen) |-> chosen[k].fontSize])
    IN  OrElse(median, RInt(12))

\* mutant: the empty blocks are joined like the others
NonEmpty_KeepsAll(blocks) == blocks

\* .filter(Boolean) on strings: the empty ones go
RECURSIVE NonEmpty(_)
NonEmpty(blocks) ==
    IF blocks = <<>> THEN <<>>
    ELSE (IF Head(blocks) # <<>> THEN <<Head(blocks)>> ELSE <<>>)
         \o NonEmpty(Tail(blocks))

PageBreak == <<"\n", "\n", "-", "-", "-", "\n", "\n">>

\* the value pdfToMarkdown returns once allLines is known not to be empty
DocumentMarkdown(pages) ==
    LET bodyFontSize == BodyFontSize(Flat(pages))
        perPageMarkdown ==
            NonEmpty([k \in 1..Len(pages) |-> linesToMarkdown(pages[k], bodyFontSize)])
    IN  Trim(Join(perPageMarkdown, PageBreak))

---------------------------------------------------------------------------
(* The application state and the import *)

MAX_PDF_BYTES == 10 * 1024 * 1024
MAX_PDF_PAGES == 100

\* bounds of the model
MaxCalls == 2       \* importPdf calls in one behaviour
MaxPages == 2       \* pages of a document that is within the page limit
MaxFiles == 2       \* files in one drop
MaxDragDepth == 1   \* cap of the dragenter counter

\* the first line of the text mdInput is constructed with
InitialMarkdown ==
    <<"#", " ", "M", "a", "r", "k", "d", "o", "w", "n", " ",
      "E", "d", "i", "t", "o", "r">>

\* the values of importStatus and importError
NoText == [kind |-> "empty"]
StatusLoading == [kind |-> "Loading PDF parser..."]
StatusReading(pageNo, numPages) ==
    [kind |-> "Reading page", pageNo |-> pageNo, numPages |-> numPages]
StatusImported(name) == [kind |-> "Imported", name |-> name]
ErrorOnlyPdf == [kind |-> "Only PDF files are supported."]
\* (file.size / (1024 * 1024)).toFixed(1), in tenths of a MB
TenthsOfMB(size) == (2 * 10 * size + 1024 * 1024) \div (2 * 1024 * 1024)
ErrorTooLarge(size) == [kind |-> "File is too large", tenthsOfMB |-> TenthsOfMB(size)]
ErrorDropAPdf == [kind |-> "Drop a PDF file to import."]
ErrorPageLimit(numPages) ==
    [kind |-> "This PDF has too many pages", numPages |-> numPages,
     limit |-> MAX_PDF_PAGES]
ErrorNoSelectableText == [kind |-> "No selectable text was found."]
ErrorImportFailed == [kind |-> "PDF import failed."]

\* what a rejected promise of the browser or of pdf.js carries: an Error with
\* its message, or a value that is no Error
ServiceFailures ==
    {[isError |-> TRUE, message |-> [kind |-> "pdf.js error"]], [isError |-> FALSE]}
Thrown(message) == [isError |-> TRUE, message |-> message]

\* the files a drop can carry
File(name, type, size) == [name |-> name, type |-> type, size |-> size]
Files ==
    {File(<<"a", ".", "P", "D", "F">>, "text/plain", MAX_PDF_BYTES),
     File(<<"b", ".", "t", "x", "t">>, "application/pdf", MAX_PDF_BYTES),
     File(<<"b", ".", "t", "x", "t">>, "text/plain", MAX_PDF_BYTES),
     File(<<"a", ".", "P", "D", "F">>, "application/pdf", MAX_PDF_BYTES + 1)}
FileLists == UNION {[1..n -> Files] : n \in 0..MaxFiles}

ToLower(c) ==
    CASE c = "P" -> "p" [] c = "D" -> "d" [] c = "F" -> "f" [] OTHER -> c

\* /\.pdf$/i.test(name)
EndsWithPdf(name) ==
    /\ Len(name) >= 4
    /\ [k \in 1..4 |-> ToLower(name[Len(name) - 4 + k])] = <<".", "p", "d", "f">>

isPdfFile(file) == file.type = "application/pdf" \/ EndsWithPdf(file.name)

NoFile == [name |-> <<>>, type |-> "", size |-> 0]

RECURSIVE pickPdfFile(_)
pickPdfFile(fileList) ==
    IF fileList = <<>> THEN NoFile
    ELSE IF isPdfFile(Head(fileList)) THEN Head(fileList)
    ELSE pickPdfFile(Tail(fileList))

\* the pages pdf.js can hand out: a whitespace-only run, one run of body
\* text, a large title over a short text
RawItem(str, x, y, width, fontSize) ==
    [str |-> str, transform |-> <<fontSize, Zero, Zero, fontSize, x, y>>,
     width |-> width, height |-> fontSize]
PageContents ==
    {[items |-> <<RawItem(<<" ", "\n">>, RInt(72), RInt(700), RInt(8), RInt(12))>>],
     [items |-> <<RawItem(<<"a", "b">>, RInt(72), RInt(700), RInt(12), RInt(12))>>],
     [items |-> <<RawItem(<<"c">>, RInt(72), RInt(640), RInt(6), RInt(12)),
                  RawItem(<<"T">>, RInt(72), RInt(700), RInt(14), RInt(24))>>]}

\* the documents getDocument can resolve with: within the page limit, each
\* page with its content, or reporting one page more than the limit
Documents ==
    UNION {[numPages : {n}, content : [1..n -> PageContents]] : n \in 1..MaxPages}
    \cup {[numPages |-> MAX_PDF_PAGES + 1,
            content |-> [k \in 1..(MAX_PDF_PAGES + 1) |->
                            CHOOSE content \in PageContents : TRUE]]}

NoPdf == [numPages |-> 0, content |-> <<>>]
NoOutcome == [state |-> "pending"]

\* an importPdf call: the file, where the call stands, and the locals of its
\* pdfToMarkdown run (pdf, pageNo, pages) with that run's outcome
Call(file, pc) ==
    [file |-> file, pc |-> pc, pdf |-> NoPdf, pageNo |-> 0, pages |-> <<>>,
     outcome |-> NoOutcome]

InPdfToMarkdown(call) ==
    call.pc \in {"arrayBuffer", "getDocument", "getPage", "getTextContent"}

AppInit ==
    /\ mdInput = InitialMarkdown
    /\ isImportingPdf = FALSE
    /\ importStatus = NoText
    /\ importError = NoText
    /\ dragDepth = 0
    /\ calls = <<>>

\* importPdf(file) up to its return or to the first await of pdfToMarkdown
\* mutant: the size of the file is not checked
importPdf_NoSizeCheck(file) ==
    IF ~isPdfFile(file)
    THEN /\ importError' = ErrorOnlyPdf
         /\ importStatus' = NoText
         /\ calls' = Append(calls, Call(file, "done"))
         /\ UNCHANGED <<mdInput, isImportingPdf>>
    ELSE /\ importError' = NoText
         /\ isImportingPdf' = TRUE
         /\ importStatus' = StatusLoading
         /\ calls' = Append(calls, Call(file, "arrayBuffer"))
         /\ UNCHANGED mdInput

importPdf(file) ==
    IF ~isPdfFile(file)
    THEN /\ importError' = ErrorOnlyPdf
         /\ importStatus' = NoText
         /\ calls' = Append(calls, Call(file, "done"))
         /\ UNCHANGED <<mdInput, isImportingPdf>>
    ELSE IF file.size > MAX_PDF_BYTES
    THEN /\ importError' = ErrorTooLarge(file.size)
         /\ importStatus' = NoText
         /\ calls' = Append(calls, Call(file, "done"))
         /\ UNCHANGED <<mdInput, isImportingPdf>>
    ELSE /\ importError' = NoText
         /\ isImportingPdf' = TRUE
         /\ importStatus' = StatusLoading
         /\ calls' = Append(calls, Call(file, "arrayBuffer"))
         /\ UNCHANGED mdInput

\* pdfToMarkdown throws, or an awaited promise rejects: its promise rejects
Rejects(i, failure) ==
    calls' = [calls EXCEPT ![i].pc = "settled",
                           ![i].outcome = [state |-> "rejected", reason |-> failure]]

\* await file.arrayBuffer() settles
ArrayBufferSettles(i) ==
    /\ calls[i].pc = "arrayBuffer"
    /\ \/ calls' = [calls EXCEPT ![i].pc = "getDocument"]
       \/ \E failure \in ServiceFailures : Rejects(i, failure)
    /\ UNCHANGED <<mdInput, isImportingPdf, importStatus, importError, dragDepth>>
    /\ UNCHANGED fnVars

\* mutant: the page count is compared with the byte limit
OverPageLimit_ByteLimit(numPages) == numPages > MAX_PDF_BYTES

\* if (pdf.numPages > MAX_PDF_PAGES)
OverPageLimit(numPages) == numPages > MAX_PDF_PAGES

\* await pdfjs.getDocument(...).promise settles; the page limit; the first
\* pass of the loop up to await pdf.getPage(1)
GetDocumentSettles(i) ==
    /\ calls[i].pc = "getDocument"
    /\ \/ \E pdf \in Documents :
            IF OverPageLimit(pdf.numPages)
            THEN /\ calls' = [calls EXCEPT
                        ![i].pc = "settled", ![i].pdf = pdf,
                        ![i].outcome =
                            [state |-> "rejected",
                             reason |-> Thrown(ErrorPageLimit(pdf.numPages))]]
                 /\ UNCHANGED importStatus
            ELSE /\ calls' = [calls EXCEPT ![i].pc = "getPage", ![i].pdf = pdf,
                                           ![i].pageNo = 1]
                 /\ importStatus' = StatusReading(1, pdf.numPages)
       \/ /\ \E failure \in ServiceFailures : Rejects(i, failure)
          /\ UNCHANGED importStatus
    /\ UNCHANGED <<mdInput, isImportingPdf, importError, dragDepth>>
    /\ UNCHANGED fnVars

\* await pdf.getPage(pageNo) settles; page.getTextContent is called
GetPageSettles(i) ==
    /\ calls[i].pc = "getPage"
    /\ \/ calls' = [calls EXCEPT ![i].pc = "getTextContent"]
       \/ \E failure \in ServiceFailures : Rejects(i, failure)
    /\ UNCHANGED <<mdInput, isImportingPdf, importStatus, importError, dragDepth>>
    /\ UNCHANGED fnVars

\* mutant: the emptiness test looks at the pages instead of at their lines
Returns_CountsPages(i, pages) ==
    IF Len(pages) = 0
    THEN calls' = [calls EXCEPT
            ![i].pc = "settled", ![i].pages = pages,
            ![i].outcome = [state |-> "rejected",
                            reason |-> Thrown(ErrorNoSelectableText)]]
    ELSE calls' = [calls EXCEPT
            ![i].pc = "settled", ![i].pages = pages,
            ![i].outcome = [state |-> "fulfilled",
                            value |-> DocumentMarkdown(pages)]]

\* the rest of pdfToMarkdown once the loop has ended with these pages
Returns(i, pages) ==
    IF Len(Flat(pages)) = 0
    THEN calls' = [calls EXCEPT
            ![i].pc = "settled", ![i].pages = pages,
            ![i].outcome = [state |-> "rejected",
                            reason |-> Thrown(ErrorNoSelectableText)]]
    ELSE calls' = [calls EXCEPT
            ![i].pc = "settled", ![i].pages = pages,
            ![i].outcome = [state |-> "fulfilled",
                            value |-> DocumentMarkdown(pages)]]

\* mutant: the page's lines are put in front of the earlier pages
PushPage_InFront(pages, content) == <<extractLinesFromPdfTextContent(content)>> \o pages

\* pages.push(extractLinesFromPdfTextContent(textContent))
PushPage(pages, content) == Append(pages, extractLinesFromPdfTextContent(content))

\* await page.getTextContent(...) settles; the page's lines are pushed; the
\* next pass up to await pdf.getPage, or the end of pdfToMarkdown
GetTextContentSettles(i) ==
    /\ calls[i].pc = "getTextContent"
    /\ \/ LET call == calls[i]
              pages == PushPage(call.pages, call.pdf.content[call.pageNo])
              pageNo == call.pageNo + 1
          IN  IF pageNo <= call.pdf.numPages
              THEN /\ calls' = [calls EXCEPT ![i].pc = "getPage", ![i].pages = pages,
                                             ![i].pageNo = pageNo]
                   /\ importStatus' = StatusReading(pageNo, call.pdf.numPages)
              ELSE /\ Returns(i, pages)
                   /\ UNCHANGED importStatus
       \/ /\ \E failure \in ServiceFailures : Rejects(i, failure)
          /\ UNCHANGED importStatus
    /\ UNCHANGED <<mdInput, isImportingPdf, importError, dragDepth>>
    /\ UNCHANGED fnVars

\* the call's locals are gone once it has returned
Finished(call) == Call(call.file, "done")

\* mutant: a failed run's pages are rendered into the editor
ImportResumes_KeepsPartial(i) ==
    /\ calls[i].pc = "settled"
    /\ IF calls[i].outcome.state = "fulfilled"
       THEN /\ mdInput' = calls[i].outcome.value
            /\ importStatus' = StatusImported(calls[i].file.name)
            /\ UNCHANGED importError
       ELSE /\ importError' = (IF calls[i].outcome.reason.isError
                               THEN calls[i].outcome.reason.message
                               ELSE ErrorImportFailed)
            /\ importStatus' = NoText
            /\ mdInput' = (IF calls[i].pages = <<>> THEN mdInput
                           ELSE DocumentMarkdown(calls[i].pages))
    /\ isImportingPdf' = FALSE
    /\ calls' = [calls EXCEPT ![i] = Finished(calls[i])]
    /\ UNCHANGED dragDepth
    /\ UNCHANGED fnVars

\* await pdfToMarkdown(file) settles in importPdf: try, catch, finally
ImportResumes(i) ==
    /\ calls[i].pc = "settled"
    /\ IF calls[i].outcome.state = "fulfilled"
       THEN /\ mdInput' = calls[i].outcome.value
            /\ importStatus' = StatusImported(calls[i].file.name)
            /\ UNCHANGED importError
       ELSE /\ importError' = (IF calls[i].outcome.reason.isError
                               THEN calls[i].outcome.reason.message
                               ELSE ErrorImportFailed)
            /\ importStatus' = NoText
            /\ UNCHANGED mdInput
    /\ isImportingPdf' = FALSE
    /\ calls' = [calls EXCEPT ![i] = Finished(calls[i])]
    /\ UNCHANGED dragDepth
    /\ UNCHANGED fnVars

onDragEnterPdf ==
    /\ dragDepth < MaxDragDepth
    /\ \E hasFiles \in BOOLEAN :
          dragDepth' = IF hasFiles THEN dragDepth + 1 ELSE dragDepth
    /\ UNCHANGED <<mdInput, isImportingPdf, importStatus, importError, calls>>
    /\ UNCHANGED fnVars

\* mutant: the counter is decremented without the clamp at 0
onDragLeavePdf_Unclamped ==
    /\ dragDepth' = dragDepth - 1
    /\ UNCHANGED <<mdInput, isImportingPdf, importStatus, importError, calls>>
    /\ UNCHANGED fnVars

onDragLeavePdf ==
    /\ dragDepth' = (IF dragDepth - 1 > 0 THEN dragDepth - 1 ELSE 0)
    /\ UNCHANGED <<mdInput, isImportingPdf, importStatus, importError, calls>>
    /\ UNCHANGED fnVars

\* onDropPdf up to its return or to the first await of the import
onDropPdf ==
    \E fileList \in FileLists :
        /\ dragDepth' = 0
        /\ LET file == pickPdfFile(fileList)
           IN  IF file = NoFile
               THEN /\ importError' = ErrorDropAPdf
                    /\ UNCHANGED <<mdInput, isImportingPdf, importStatus, calls>>
               ELSE /\ Len(calls) < MaxCalls
                    /\ importPdf(file)
        /\ UNCHANGED fnVars

NoArg == [fn |-> "none"]
NoResult == [fn |-> "none"]

Init ==
    /\ AppInit
    /\ arg = NoArg
    /\ result = NoResult

Next ==
    \/ onDragEnterPdf
    \/ onDragLeavePdf
    \/ onDropPdf
    \/ \E i \in 1..Len(calls) : ArrayBufferSettles(i)
    \/ \E i \in 1..Len(calls) : GetDocumentSettles(i)
    \/ \E i \in 1..Len(calls) : GetPageSettles(i)
    \/ \E i \in 1..Len(calls) : GetTextContentSettles(i)
    \/ \E i \in 1..Len(calls) : ImportResumes(i)

\* the application: drag and drop events and the imports they start
Spec == Init /\ [][Next]_vars

\* importPdf called with any file, one call at a time
CallImportPdf ==
    /\ Len(calls) < MaxCalls
    /\ \A i \in 1..Len(calls) : calls[i].pc = "done"
    /\ \E file \in Files : importPdf(file)
    /\ UNCHANGED dragDepth
    /\ UNCHANGED fnVars

NextImportPdf ==
    \/ CallImportPdf
    \/ \E i \in 1..Len(calls) : ArrayBufferSettles(i)
    \/ \E i \in 1..Len(calls) : GetDocumentSettles(i)
    \/ \E i \in 1..Len(calls) : GetPageSettles(i)
    \/ \E i \in 1..Len(calls) : GetTextContentSettles(i)
    \/ \E i \in 1..Len(calls) : ImportResumes(i)

SpecImportPdf == Init /\ [][NextImportPdf]_vars

---------------------------------------------------------------------------
(* Claims about an import *)

Rejected(call, message) ==
    /\ call.pc = "settled"
    /\ call.outcome = [state |-> "rejected", reason |-> Thrown(message)]

Fulfilled(call) == call.pc = "settled" /\ call.outcome.state = "fulfilled"

\* C1: when the opened document reports more than 100 pages, pdfToMarkdown
\* fails with the page-limit error before any page is fetched and before any
\* text is extracted.
C1_PageLimitBeforeExtraction ==
    \A i \in 1..Len(calls) :
        calls[i].pdf.numPages > 100 =>
            /\ Rejected(calls[i], ErrorPageLimit(calls[i].pdf.numPages))
            /\ calls[i].pageNo = 0
            /\ calls[i].pages = <<>>

\* C1 witness: a run that opened a document of 101 pages has ended.
C1_Witness ==
    \E i \in 1..Len(calls) : calls[i].pdf.numPages = 101 /\ calls[i].pc = "settled"

\* the call at index i takes the step
StepOf(i) == i > Len(calls) \/ calls'[i] # calls[i]

\* C2: a failed import is all-or-nothing: no step of an import that fails
\* writes mdInput, whatever was extracted before the failure, and the failure
\* is reported in importError; only an import that succeeds writes mdInput,
\* and it writes the complete Markdown.
C2_FailedImportKeepsContent ==
    [][\A i \in 1..Len(calls') :
           StepOf(i) =>
               /\ mdInput' # mdInput =>
                     /\ i <= Len(calls)
                     /\ Fulfilled(calls[i])
                     /\ mdInput' = calls[i].outcome.value
               /\ (i <= Len(calls) /\ calls[i].pc = "settled"
                                   /\ calls[i].outcome.state = "rejected") =>
                     /\ mdInput' = mdInput
                     /\ importError' # NoText
                     /\ calls[i].outcome.reason.isError =>
                           importError' = calls[i].outcome.reason.message
                     /\ calls'[i].pc = "done"]_vars

\* C2 witness: an import has failed after all its pages were read, the editor
\* still holds what it held and the failure is on display.
C2_Witness ==
    /\ Len(calls) >= 1
    /\ \A i \in 1..Len(calls) : calls[i].pc = "done"
    /\ importError = ErrorNoSelectableText
    /\ mdInput = InitialMarkdown
    /\ ~isImportingPdf

\* C3: at most one document is being processed at any time: while one call of
\* importPdf is suspended in the extraction of a page, no other call loads or
\* extracts a document.
C3_OneDocumentAtATime ==
    \A i, j \in 1..Len(calls) :
        (i # j /\ calls[i].pc \in {"getPage", "getTextContent"}) =>
            ~InPdfToMarkdown(calls[j])

\* the lines of the pages 1..k of a document, page by page
ExtractedPages(pdf, k) == [p \in 1..k |-> extractLinesFromPdfTextContent(pdf.content[p])]

\* C4: within one import the pages are extracted in ascending page number,
\* page k+1 is requested only after the extraction of page k has completed,
\* and the blocks of the pages appear in the output in page order.
C4_PagesInOrder ==
    [][\A i \in 1..Len(calls) :
           /\ calls[i].pc \in {"getPage", "getTextContent"} =>
                 /\ calls[i].pageNo = Len(calls[i].pages) + 1
                 /\ calls[i].pageNo <= calls[i].pdf.numPages
           /\ calls[i].pages = ExtractedPages(calls[i].pdf, Len(calls[i].pages))
           /\ Fulfilled(calls[i]) =>
                 LET pages == ExtractedPages(calls[i].pdf, calls[i].pdf.numPages)
                     bodyFontSize == BodyFontSize(Flat(pages))
                     blocks == [p \in 1..Len(pages) |->
                                   linesToMarkdown(pages[p], bodyFontSize)]
                 IN  calls[i].outcome.value = Trim(Join(NonEmpty(blocks), PageBreak))
           /\ (calls'[i].pc # "done" /\ calls'[i].pageNo # calls[i].pageNo) =>
                 /\ calls'[i].pageNo = calls[i].pageNo + 1
                 /\ calls[i].pc = (IF calls[i].pageNo = 0 THEN "getDocument"
                                   ELSE "getTextContent")
                 /\ Len(calls'[i].pages) = calls[i].pageNo]_vars

\* C4 witness: a document of two different pages with text has been rendered.
C4_Witness ==
    \E i \in 1..Len(calls) :
        /\ Fulfilled(calls[i])
        /\ Len(calls[i].pages) = 2
        /\ calls[i].pages[1] # <<>>
        /\ calls[i].pages[2] # <<>>
        /\ calls[i].pages[1] # calls[i].pages[2]

RECURSIVE LineCount(_, _)
LineCount(pdf, k) ==
    IF k = 0 THEN 0
    ELSE LineCount(pdf, k - 1) + Len(extractLinesFromPdfTextContent(pdf.content[k]))

\* the loop of pdfToMarkdown has gone through every page of the document
AllPagesProcessed(call) ==
    /\ call.pc = "settled"
    /\ call.pdf.numPages >= 1
    /\ Len(call.pages) = call.pdf.numPages

\* C5: when all pages have been processed and they hold no line at all,
\* pdfToMarkdown fails with the no-extractable-text error; when they hold at
\* least one line it returns Markdown, and that error is raised in no other case.
C5_NoTextIffNoLines ==
    \A i \in 1..Len(calls) :
        /\ AllPagesProcessed(calls[i]) =>
              IF LineCount(calls[i].pdf, calls[i].pdf.numPages) = 0
              THEN Rejected(calls[i], ErrorNoSelectableText)
              ELSE Fulfilled(calls[i])
        /\ Rejected(calls[i], ErrorNoSelectableText) =>
              /\ AllPagesProcessed(calls[i])
              /\ LineCount(calls[i].pdf, calls[i].pdf.numPages) = 0

\* C5 witness: a document of two pages of whitespace was refused.
C5_Witness ==
    \E i \in 1..Len(calls) :
        /\ Rejected(calls[i], ErrorNoSelectableText)
        /\ calls[i].pdf.numPages = 2
        /\ Len(calls[i].pages) = 2

Admissible(file) == isPdfFile(file) /\ file.size <= 10 * 1024 * 1024

\* C6: importPdf invokes pdfToMarkdown only for a PDF of at most 10 MiB; for
\* any other file it sets importError, does not set isImportingPdf and
\* leaves mdInput unchanged.
C6_EngineOnlyForSmallPdf ==
    [][/\ \A i \in 1..Len(calls') : calls'[i].pc # "done" => Admissible(calls'[i].file)
       /\ Len(calls') > Len(calls) =>
             LET call == calls'[Len(calls')]
             IN  IF Admissible(call.file)
                 THEN call.pc = "arrayBuffer"
                 ELSE /\ call.pc = "done"
                      /\ importError' \in {ErrorOnlyPdf, ErrorTooLarge(call.file.size)}
                      /\ isImportingPdf' = isImportingPdf
                      /\ ~isImportingPdf'
                      /\ mdInput' = mdInput]_vars

\* C6 witness: importPdf has refused a file that is no PDF and then a PDF of
\* more than 10 MiB.
C6_Witness ==
    /\ Len(calls) = 2
    /\ ~isPdfFile(calls[1].file)
    /\ isPdfFile(calls[2].file)
    /\ calls[2].file.size > 10 * 1024 * 1024
    /\ calls[2].pc = "done"
    /\ importError = ErrorTooLarge(calls[2].file.size)
    /\ ~isImportingPdf
    /\ mdInput = InitialMarkdown


---------------------------------------------------------------------------
(* The layout functions, each applied to arguments drawn at the start *)

MaxItems == 3        \* text runs of a page
MaxBlockLines == 3   \* lines of a tab-bearing block
MaxCols == 4         \* cells of a tab-bearing line

\* the runs of a page: one whitespace-only run, and visible text at two x
\* and at y values that share a bucket (1 and 5/2), that lie within 2 of
\* each other in different buckets (5/2 and 3), and that lie 2 apart (-1, 1);
\* "a" is 10 wide and "b" 1 wide, so that a run at x = 30 comes after a
\* space when it follows "a" at x = 0 and after a tab when it follows "b"
PageItems ==
    {RawItem(str, x, y, RInt(IF str = <<"a">> THEN 10 ELSE 1), RInt(12)) :
        str \in {<<"a">>, <<"b">>},
        x \in {Zero, RInt(30)},
        y \in {RInt(-1), RInt(1), R(5, 2), RInt(3)}}
    \cup {RawItem(<<" ">>, Zero, RInt(1), RInt(10), RInt(12))}

InitRows ==
    /\ AppInit
    /\ arg \in {[fn |-> "extractLinesFromPdfTextContent", items |-> items] :
                   items \in UNION {[1..n -> PageItems] : n \in 0..MaxItems}}
    /\ result = NoResult

ExtractLines ==
    /\ result = NoResult
    /\ result' = [fn |-> arg.fn,
                  rows |-> PageRows(arg.items),
                  lines |-> extractLinesFromPdfTextContent(arg)]
    /\ UNCHANGED <<arg, appVars>>

NextRows == ExtractLines

SpecRows == InitRows /\ [][NextRows]_vars

\* the runs of the page that carry text, by their place in arrival order
Visible(items) ==
    {k \in 1..Len(items) : \E c \in 1..Len(items[k].str) : ~IsSpace(items[k].str[c])}

\* the visible runs of the page whose y falls in the bucket
InBucket(items, bucket) ==
    {k \in Visible(items) : quantizeY(ItemY(items[k])) = bucket}

Extracted == result.fn = "extractLinesFromPdfTextContent"

\* C7 as claimed: two runs of a page whose y differ by less than 2 get the
\* same bucket from quantizeY, and so land in the same row.
C7_CloseRunsShareRow ==
    Extracted =>
        \A i, j \in Visible(arg.items) :
            RLt(RAbs(RSub(ItemY(arg.items[i]), ItemY(arg.items[j]))), RInt(2))
            => /\ quantizeY(ItemY(arg.items[i])) = quantizeY(ItemY(arg.items[j]))
               /\ \E r \in 1..Len(result.rows) :
                     {i, j} \subseteq InBucket(arg.items, result.rows[r].y)

\* C7 amended: two runs get the same bucket, and so land in the same row,
\* only if their y differ by less than 2; two runs whose y differ by less
\* than 2 land in the same row or in rows whose buckets are 2 apart; every
\* row holds exactly the runs of its bucket.
C7_SameRowOnlyIfClose ==
    Extracted =>
        /\ \A i, j \in Visible(arg.items) :
            LET dy == RAbs(RSub(ItemY(arg.items[i]), ItemY(arg.items[j])))
                db == RAbs(RSub(quantizeY(ItemY(arg.items[i])),
                                quantizeY(ItemY(arg.items[j]))))
            IN  /\ db = Zero => RLt(dy, RInt(2))
                /\ RLt(dy, RInt(2)) => db \in {Zero, RInt(2)}
        /\ \A r \in 1..Len(result.rows) :
            Len(result.rows[r].segments)
                = Cardinality(InBucket(arg.items, result.rows[r].y))
        /\ \A i \in Visible(arg.items) :
            \E r \in 1..Len(result.rows) :
                result.rows[r].y = quantizeY(ItemY(arg.items[i]))

\* C7 witness: two runs 1/2 apart in y were put in different rows, and two
\* runs 3/2 apart in one row.
C7_Witness ==
    /\ Extracted
    /\ \E i, j \in Visible(arg.items) :
          /\ ItemY(arg.items[i]) = R(5, 2)
          /\ ItemY(arg.items[j]) = RInt(3)
    /\ \E r \in 1..Len(result.rows) : Len(result.rows[r].segments) >= 2
    /\ Len(result.rows) >= 2

\* C8: the rows of a page come in strictly decreasing bucket order, one row
\* for each bucket that holds a visible run; in a row the runs are ordered
\* by x, runs with equal x in their arrival order.
C8_RowsAndSegmentsOrdered ==
    Extracted =>
        LET items == arg.items
            rows == result.rows
            \* where the stable order by x puts run k among the runs of its bucket
            Place(k, bucket) ==
                1 + Cardinality({j \in InBucket(items, bucket) :
                        \/ RLt(Segment(items[j]).x, Segment(items[k]).x)
                        \/ /\ Segment(items[j]).x = Segment(items[k]).x
                           /\ j < k})
        IN  /\ \A r \in 1..(Len(rows) - 1) : RLt(rows[r + 1].y, rows[r].y)
            /\ {rows[r].y : r \in 1..Len(rows)}
                   = {quantizeY(ItemY(items[k])) : k \in Visible(items)}
            /\ \A r \in 1..Len(rows) :
                /\ Len(rows[r].segments) = Cardinality(InBucket(items, rows[r].y))
                /\ \A k \in InBucket(items, rows[r].y) :
                      rows[r].segments[Place(k, rows[r].y)] = Segment(items[k])
                /\ \A p \in 1..(Len(rows[r].segments) - 1) :
                      RLe(rows[r].segments[p].x, rows[r].segments[p + 1].x)

\* C8 witness: the runs arrived lowest bucket first, two of them with
\* different text at the same x in one row.
C8_Witness ==
    /\ Extracted
    /\ Len(result.rows) >= 2
    /\ \E i, j, k \in Visible(arg.items) :
          /\ i < j /\ j < k
          /\ quantizeY(ItemY(arg.items[i])) = quantizeY(ItemY(arg.items[j]))
          /\ RLt(quantizeY(ItemY(arg.items[j])), quantizeY(ItemY(arg.items[k])))
          /\ Segment(arg.items[i]).x = Segment(arg.items[j]).x
          /\ Segment(arg.items[i]).text # Segment(arg.items[j]).text

RECURSIVE DropSeparators(_)
DropSeparators(text) ==
    IF text = <<>> THEN <<>>
    ELSE (IF Head(text) \in {" ", "\t"} THEN <<>> ELSE <<Head(text)>>)
         \o DropSeparators(Tail(text))

RECURSIVE SegmentTexts(_)
SegmentTexts(segments) ==
    IF segments = <<>> THEN <<>>
    ELSE Head(segments).text \o SegmentTexts(Tail(segments))

\* C16: every row that extractLinesFromPdfTextContent builds yields exactly
\* one line, so that lines and buckets correspond one to one; the text of a
\* line is not empty, neither starts nor ends with a tab or a space and has
\* no two adjacent tabs; so a tab-bearing line splits into at least 2 cells,
\* none of them empty.
C16_EveryRowYieldsALine ==
    Extracted =>
        /\ Len(result.lines) = Len(result.rows)
        /\ Len(result.lines)
              = Cardinality({quantizeY(ItemY(arg.items[k])) : k \in Visible(arg.items)})
        /\ \A r \in 1..Len(result.lines) :
              LET line == result.lines[r]
                  cells == Split(line.text, "\t")
              IN  /\ DropSeparators(line.text) = SegmentTexts(result.rows[r].segments)
                  /\ line.text # <<>>
                  /\ line.text[1] \notin {" ", "\t"}
                  /\ line.text[Len(line.text)] \notin {" ", "\t"}
                  /\ \A c \in 1..(Len(line.text) - 1) :
                        ~(line.text[c] = "\t" /\ line.text[c + 1] = "\t")
                  /\ line.hasTabs <=> Includes(line.text, "\t")
                  /\ line.hasTabs =>
                        /\ Len(cells) >= 2
                        /\ \A c \in 1..Len(cells) : Trim(cells[c]) # <<>>
                        /\ Len(splitTabbedColumns(line.text)) = Len(cells)

\* C16 witness: a page with a whitespace-only run and two visible runs far
\* apart in one bucket gave one row and one line, of two cells.
C16_Witness ==
    /\ Extracted
    /\ Len(arg.items) = 3
    /\ Cardinality(Visible(arg.items)) = 2
    /\ Len(result.rows) = 1
    /\ Len(result.lines) = 1
    /\ result.lines[1].hasTabs
    /\ result.lines[1].text = <<"b", "\t", "a">>

---------------------------------------------------------------------------
(* extractLinesFromPdfTextContent applied to one row of runs laid out with
   chosen gaps *)

MaxSegments == 3     \* runs of the row

\* a run's text and width: character widths 5 and 5/4
RunShapes ==
    {[str |-> <<"a">>, width |-> RInt(5)],
     [str |-> <<"a", "b", "c", "d">>, width |-> RInt(5)]}

\* the distance of a run from the end of the run before it: overlapping, and
\* at and around the thresholds 6, 8.75, 24 and 30
RunGaps ==
    {RInt(-3), RInt(6), RInt(7), R(35, 4), RInt(9), RInt(24), RInt(25),
     RInt(30), RInt(31)}

RunParts == [shape : RunShapes, gap : RunGaps]

\* the first run of the row: at the left edge, or beyond every threshold
FirstRunParts == [shape : RunShapes, gap : {Zero, RInt(31)}]

\* where the row ends when its runs are laid out left to right
RECURSIVE RowEnd(_)
RowEnd(parts) ==
    IF parts = <<>> THEN Zero
    ELSE LET part == parts[Len(parts)]
         IN  RAdd(RAdd(RowEnd(SubSeq(parts, 1, Len(parts) - 1)), part.gap),
                  part.shape.width)

\* the raw items of the row, all on the baseline y = 700
RowItems(parts) ==
    [k \in 1..Len(parts) |->
        RawItem(parts[k].shape.str,
                RAdd(RowEnd(SubSeq(parts, 1, k - 1)), parts[k].gap),
                RInt(700), parts[k].shape.width, RInt(12))]

Reversed(items) == [k \in 1..Len(items) |-> items[Len(items) + 1 - k]]

InitGaps ==
    /\ AppInit
    /\ \E n \in 1..MaxSegments :
       \E first \in FirstRunParts : \E rest \in [1..(n - 1) -> RunParts] :
          \E items \in {RowItems(<<first>> \o rest),
                         Reversed(RowItems(<<first>> \o rest))} :
             arg = [fn |-> "extractLinesFromPdfTextContent", items |-> items]
    /\ result = NoResult

SpecGaps == InitGaps /\ [][NextRows]_vars

\* the separator the claim puts between two consecutive segments of a row
GapSeparator(previous, segment) ==
    LET gap == RSub(segment.x, RAdd(previous.x, previous.width))
        length == IF Len(previous.text) > 1 THEN Len(previous.text) ELSE 1
        \* gap > max(a, previousCharWidth * m/100), without dividing
        Exceeds(a, m) ==
            /\ gap.n > a * gap.d
            /\ gap.n * previous.width.d * length * 100
                  > previous.width.n * m * gap.d
    IN  IF Exceeds(24, 600) THEN <<"\t">>
        ELSE IF Exceeds(6, 175) THEN <<" ">>
        ELSE <<>>

RECURSIVE RowText(_)
RowText(segments) ==
    IF Len(segments) = 1 THEN segments[1].text
    ELSE RowText(SubSeq(segments, 1, Len(segments) - 1))
         \o GapSeparator(segments[Len(segments) - 1], segments[Len(segments)])
         \o segments[Len(segments)].text

\* C11: between two consecutive segments of a row a tab is inserted iff
\* gap > max(24, previousCharWidth * 6), otherwise a space iff
\* gap > max(6, previousCharWidth * 1.75), otherwise nothing; nothing is put
\* before the first segment, and hasTabs is true exactly when a tab was
\* inserted.
C11_SeparatorByGap ==
    Extracted =>
        /\ Len(result.rows) = 1
        /\ Len(result.lines) = 1
        /\ LET segments == result.rows[1].segments
           IN  /\ result.lines[1].text = RowText(segments)
               /\ result.lines[1].hasTabs
                    <=> \E k \in 2..Len(segments) :
                           GapSeparator(segments[k - 1], segments[k]) = <<"\t">>

\* C11 witness: a row of three segments got a space before the second and a
\* tab before the third, although the runs arrived right to left.
C11_Witness ==
    /\ Extracted
    /\ Len(arg.items) = 3
    /\ RLt(TransformAt(arg.items[3], 4), TransformAt(arg.items[1], 4))
    /\ result.lines[1].text = <<"a", " ", "a", "\t", "a">>
    /\ result.lines[1].hasTabs

---------------------------------------------------------------------------
(* pdfToMarkdown applied to documents whose pages differ in font sizes, line
   lengths and tabs, from the end of its loop on *)

MaxDocPages == 3     \* pages of a document

\* pages: whitespace only; a title of size 13; a line of 20 characters of
\* size 10; a line of 19 characters of size 10; a tab-bearing line of more
\* than 20 characters of size 8; a title of size 24 above a short line of 12
DocPageContents ==
    {[items |-> <<RawItem(<<" ">>, RInt(72), RInt(700), RInt(4), RInt(12))>>],
     [items |-> <<RawItem(<<"T">>, RInt(72), RInt(700), RInt(8), RInt(13))>>],
     [items |-> <<RawItem(Repeat("a", 20), RInt(72), RInt(700), RInt(100), RInt(10))>>],
     [items |-> <<RawItem(Repeat("a", 19), RInt(72), RInt(700), RInt(95), RInt(10))>>],
     [items |-> <<RawItem(Repeat("b", 20), RInt(72), RInt(700), RInt(100), RInt(8)),
                  RawItem(<<"c">>, RInt(400), RInt(700), RInt(20), RInt(8))>>],
     [items |-> <<RawItem(<<"c">>, RInt(72), RInt(640), RInt(6), RInt(12)),
                  RawItem(<<"T">>, RInt(72), RInt(700), RInt(14), RInt(24))>>]}

InitDocument ==
    /\ AppInit
    /\ \E n \in 1..MaxDocPages : \E content \in [1..n -> DocPageContents] :
          arg = [fn |-> "pdfToMarkdown", pdf |-> [numPages |-> n, content |-> content]]
    /\ result = NoResult

\* pdfToMarkdown once every page's text content is there: the pages' lines,
\* the throw on no lines, the Markdown returned
RenderDocument ==
    /\ result = NoResult
    /\ LET pages == [p \in 1..arg.pdf.numPages |->
                        extractLinesFromPdfTextContent(arg.pdf.content[p])]
       IN  result' = [fn |-> arg.fn,
                      pages |-> pages,
                      thrown |-> Flat(pages) = <<>>,
                      markdown |-> IF Flat(pages) = <<>> THEN <<>>
                                   ELSE DocumentMarkdown(pages)]
    /\ UNCHANGED <<arg, appVars>>

NextDocument == RenderDocument

SpecDocument == InitDocument /\ [][NextDocument]_vars

Returned == result.fn = "pdfToMarkdown" /\ ~result.thrown

\* the k-th smallest of the values, by counting
Ranked(values, k) ==
    LET x == CHOOSE v \in {values[i] : i \in 1..Len(values)} :
                 /\ Cardinality({i \in 1..Len(values) : RLt(values[i], v)}) < k
                 /\ k <= Cardinality({i \in 1..Len(values) : RLe(values[i], v)})
    IN  x

\* the median: the middle value, or the mean of the two middle values
MedianOf(values) ==
    LET n == Len(values)
    IN  IF n % 2 = 1 THEN Ranked(values, (n + 1) \div 2)
        ELSE RDiv(RAdd(Ranked(values, n \div 2), Ranked(values, n \div 2 + 1)), RInt(2))

IsBodyLine(line) == Len(line.text) >= 20 /\ ~line.hasTabs

\* the font sizes of the lines of all pages, in page order: of the body
\* lines only, or of every line
RECURSIVE FontSizesOf(_, _)
FontSizesOf(pages, bodyOnly) ==
    IF pages = <<>> THEN <<>>
    ELSE IF Head(pages) = <<>> THEN FontSizesOf(Tail(pages), bodyOnly)
    ELSE LET line == Head(Head(pages))
         IN  (IF bodyOnly => IsBodyLine(line) THEN <<line.fontSize>> ELSE <<>>)
             \o FontSizesOf(<<Tail(Head(pages))>> \o Tail(pages), bodyOnly)

\* the body font size of the claim
DocumentBodyFont(pages) ==
    LET body == FontSizesOf(pages, TRUE)
        median == MedianOf(IF body # <<>> THEN body ELSE FontSizesOf(pages, FALSE))
    IN  IF median = Zero THEN RInt(12) ELSE median

\* the blocks of the pages that have lines, each rendered with bodyFontSize
RECURSIVE BlocksOf(_, _)
BlocksOf(pages, bodyFontSize) ==
    IF pages = <<>> THEN <<>>
    ELSE (IF Head(pages) # <<>>
          THEN <<linesToMarkdown(Head(pages), bodyFontSize)>> ELSE <<>>)
         \o BlocksOf(Tail(pages), bodyFontSize)

\* C12: the body font size is computed once per document from the lines of
\* all pages together and used for every page: the median of the font sizes
\* of the lines of at least 20 characters without tabs, or of all lines when
\* there is no such line, and 12 only when that median is zero.
C12_BodyFontIsDocumentMedian ==
    Returned =>
        result.markdown
            = Join(BlocksOf(result.pages, DocumentBodyFont(result.pages)), PageBreak)

\* C12 witness: a title of size 13 is a heading because the only line of 20
\* characters has size 10, although the median of all lines is 11.5.
C12_Witness ==
    /\ Returned
    /\ Len(result.pages) = 2
    /\ DocumentBodyFont(result.pages) = RInt(10)
    /\ MedianOf(FontSizesOf(result.pages, FALSE)) = R(23, 2)
    /\ result.markdown = <<"#", "#", "#", " ", "T">> \o PageBreak \o Repeat("a", 20)

RECURSIVE TotalLen(_)
TotalLen(blocks) == IF blocks = <<>> THEN 0 ELSE Len(Head(blocks)) + TotalLen(Tail(blocks))

\* where block k starts in the joined document, counted from 0
BlockStart(blocks, k) == TotalLen(SubSeq(blocks, 1, k - 1)) + 7 * (k - 1)

\* C15: the document Markdown is the blocks of the pages, empty blocks
\* removed, joined by the page break (blank line, ---, blank line): n blocks
\* are held apart by exactly n-1 page breaks, a page without lines gives
\* neither text nor a page break, and the result neither starts nor ends
\* with a page break.
C15_PageBreaksBetweenBlocks ==
    Returned =>
        LET blocks == BlocksOf(result.pages, DocumentBodyFont(result.pages))
            n == Len(blocks)
            markdown == result.markdown
        IN  /\ n >= 1
            /\ \A k \in 1..n : blocks[k] # <<>>
            /\ Len(markdown) = TotalLen(blocks) + 7 * (n - 1)
            /\ \A k \in 1..n :
                  /\ SubSeq(markdown, BlockStart(blocks, k) + 1,
                            BlockStart(blocks, k) + Len(blocks[k])) = blocks[k]
                  /\ k < n =>
                        SubSeq(markdown, BlockStart(blocks, k) + Len(blocks[k]) + 1,
                               BlockStart(blocks, k + 1))
                            = <<"\n", "\n", "-", "-", "-", "\n", "\n">>
            /\ ~IsSpace(markdown[1])
            /\ ~IsSpace(markdown[Len(markdown)])

\* C15 witness: of three pages the middle one held only whitespace, and the
\* document is the two other blocks with one page break between them.
C15_Witness ==
    /\ Returned
    /\ Len(result.pages) = 3
    /\ result.pages[1] # <<>>
    /\ result.pages[2] = <<>>
    /\ result.pages[3] # <<>>
    /\ result.markdown = <<"T">> \o PageBreak \o Repeat("a", 19)

---------------------------------------------------------------------------
(* linesToMarkdown applied to the lines of one page *)

MaxPageLines == 4    \* lines of the page

Line(text, hasTabs, fontSize, breakAfter) ==
    [text |-> text, hasTabs |-> hasTabs, fontSize |-> RInt(fontSize),
     breakAfter |-> breakAfter]

\* lines as the extraction builds them: plain text, a lone bullet glyph, a
\* title, and tab-bearing lines of two and of four cells, with and without
\* a break after them; the body font size is 12
PageLines ==
    {Line(<<"x">>, FALSE, 12, FALSE),
     Line(<<"y">>, FALSE, 12, TRUE),
     Line(<<"u2022">>, FALSE, 12, FALSE),
     Line(<<"u2022">>, FALSE, 24, TRUE),
     Line(<<"T">>, FALSE, 24, FALSE),
     Line(<<"a", "\t", "b">>, TRUE, 12, FALSE),
     Line(<<"c", "\t", "d">>, TRUE, 12, TRUE),
     Line(<<"a", "\t", "b", "\t", "c", "\t", "d">>, TRUE, 12, FALSE)}

InitPage ==
    /\ AppInit
    /\ \E n \in 1..MaxPageLines : \E lines \in [1..n -> PageLines] :
          arg = [fn |-> "linesToMarkdown of a page", lines |-> lines,
                 bodyFontSize |-> RInt(12)]
    /\ result = NoResult

\* linesToMarkdown: out when the loop has ended, and the string returned
RenderPage ==
    /\ result = NoResult
    /\ result' = [fn |-> arg.fn,
                  out |-> RenderFrom(arg.lines, 1, arg.bodyFontSize),
                  markdown |-> linesToMarkdown(arg.lines, arg.bodyFontSize)]
    /\ UNCHANGED <<arg, appVars>>

NextPage == RenderPage

SpecPage == InitPage /\ [][NextPage]_vars

PageRendered == result.fn = "linesToMarkdown of a page"

\* line i starts a maximal run of tab-bearing lines
StartsBlock(lines, i) == lines[i].hasTabs /\ (i = 1 \/ ~lines[i - 1].hasTabs)

\* the last line of the maximal run of tab-bearing lines that holds line i
LastOfBlock(lines, i) ==
    CHOOSE j \in i..Len(lines) :
        /\ \A k \in i..j : lines[k].hasTabs
        /\ j = Len(lines) \/ ~lines[j + 1].hasTabs

\* what line i contributes to out: the table of its block and one blank line
\* when it starts a block, nothing when it lies further on in a block, its
\* own rendering otherwise
Contribution(lines, i, bodyFontSize) ==
    IF StartsBlock(lines, i)
    THEN tabbedBlockToMarkdownTable(SubSeq(lines, i, LastOfBlock(lines, i))) \o << <<>> >>
    ELSE IF lines[i].hasTabs THEN <<>>
    ELSE RenderLine(lines[i], bodyFontSize)

RECURSIVE Contributions(_, _, _)
Contributions(lines, n, bodyFontSize) ==
    IF n = 0 THEN <<>>
    ELSE Contributions(lines, n - 1, bodyFontSize) \o Contribution(lines, n, bodyFontSize)

\* C13: linesToMarkdown groups the tab-bearing lines into maximal contiguous
\* runs: each run is handed once, whole and without any other line, to
\* tabbedBlockToMarkdownTable, its output is followed by exactly one blank
\* line whatever the breakAfter flags of its lines, and every other line is
\* rendered exactly once, in order.
C13_MaximalTabBlocks ==
    PageRendered =>
        result.out = Contributions(arg.lines, Len(arg.lines), arg.bodyFontSize)

\* C13 witness: a block of two lines, the second with breakAfter, became a
\* table with one blank line after it; the plain line and the block of one
\* line that follow were rendered after it.
C13_Witness ==
    /\ PageRendered
    /\ Len(arg.lines) = 4
    /\ arg.lines[1].hasTabs /\ arg.lines[2].hasTabs /\ arg.lines[2].breakAfter
    /\ ~arg.lines[3].hasTabs /\ ~arg.lines[3].breakAfter
    /\ arg.lines[4].hasTabs
    /\ Len(result.out) = 7
    /\ result.out[4] = <<>>
    /\ result.out[5] = <<"x">>
    /\ result.out[7] = <<>>

\* C14: the block linesToMarkdown returns is in normal form: no run of three
\* or more newlines, no space or tab before a newline, no whitespace at its
\* start or end, also when a line's normalized text ends in a space (a lone
\* bullet) and for any mix of breakAfter flags and table blocks.
C14_PageBlockNormalForm ==
    PageRendered =>
        LET markdown == result.markdown
        IN  /\ markdown # <<>>
            /\ ~IsSpace(markdown[1])
            /\ ~IsSpace(markdown[Len(markdown)])
            /\ \A k \in 1..(Len(markdown) - 2) :
                  ~(markdown[k] = "\n" /\ markdown[k + 1] = "\n" /\ markdown[k + 2] = "\n")
            /\ \A k \in 1..(Len(markdown) - 1) :
                  markdown[k + 1] = "\n" => markdown[k] \notin {" ", "\t"}

\* C14 witness: a lone bullet, emitted as "- " with a blank line after it,
\* stands between a table and a plain line.
C14_Witness ==
    /\ PageRendered
    /\ \E k \in 2..(Len(result.out) - 2) :
          /\ result.out[k - 1] = <<>>
          /\ result.out[k] = <<"#", " ", "-", " ">>
          /\ result.out[k + 1] = <<>>
          /\ result.out[k + 2] = <<"x">>
    /\ arg.lines[1].hasTabs

---------------------------------------------------------------------------
(* tabbedBlockToMarkdownTable applied to the blocks linesToMarkdown can form *)

\* the cells of a tab-bearing line: plain ones, with a pipe in the first or
\* the last cell, or with a bullet glyph at the start of the line
TabbedCells(n) ==
    {[c \in 1..n |-> <<"a">>],
     [c \in 1..n |-> IF c = 1 THEN <<"x", "|">> ELSE <<"a">>],
     [c \in 1..n |-> IF c = n THEN <<"|", "y">> ELSE <<"a", " ", "b">>],
     [c \in 1..n |-> IF c = 1 THEN <<"u2022", "a">> ELSE <<"a">>]}

\* a line as extractLinesFromPdfTextContent builds it from cells a tab apart
TabbedLine(cells) ==
    [text |-> Join(cells, <<"\t">>), hasTabs |-> TRUE, fontSize |-> RInt(12),
     breakAfter |-> FALSE]

TabbedLines == {TabbedLine(cells) : cells \in UNION {TabbedCells(n) : n \in 2..MaxCols}}

InitTable ==
    /\ AppInit
    /\ arg \in {[fn |-> "tabbedBlockToMarkdownTable", block |-> block] :
                   block \in UNION {[1..n -> TabbedLines] : n \in 1..MaxBlockLines}}
    /\ result = NoResult

TableOfBlock ==
    /\ result = NoResult
    /\ result' = [fn |-> arg.fn, lines |-> tabbedBlockToMarkdownTable(arg.block)]
    /\ UNCHANGED <<arg, appVars>>

NextTable == TableOfBlock

SpecTable == InitTable /\ [][NextTable]_vars

Rendered == result.fn = "tabbedBlockToMarkdownTable"

\* the cells a Markdown reader finds in a table row: the text between pipes
\* that no backslash escapes, trimmed, with \| read as |
RECURSIVE PipeCells(_, _)
PipeCells(line, cell) ==
    IF line = <<>> THEN <<cell>>
    ELSE IF Len(line) >= 2 /\ line[1] = "\\" /\ line[2] = "|"
    THEN PipeCells(SubSeq(line, 3, Len(line)), cell \o <<"|">>)
    ELSE IF line[1] = "|"
    THEN <<cell>> \o PipeCells(Tail(line), <<>>)
    ELSE PipeCells(Tail(line), cell \o <<line[1]>>)

\* a row's cells, or <<>> when the line is not of the form | ... |
TableCells(line) ==
    LET parts == PipeCells(line, <<>>)
    IN  IF Len(parts) >= 3 /\ parts[1] = <<>> /\ parts[Len(parts)] = <<>>
        THEN [c \in 1..(Len(parts) - 2) |-> Trim(parts[c + 1])]
        ELSE <<>>

\* the cells of a line of the block: its text between tabs
BlockCells(line) ==
    LET parts == Split(line.text, "\t") IN [c \in 1..Len(parts) |-> Trim(parts[c])]

\* C9: a block is rendered as a table iff it has at least 2 rows, maxCols is
\* at least 2 and maxCols - minCols at most 1; the table of n rows has n+1
\* lines, each of exactly maxCols cells: the first row as header, a row of
\* --- cells, the other rows, short rows padded with empty cells; a block
\* that is not accepted gives one line without a tab per line of the block.
C9_TableIffConsistent ==
    Rendered =>
        LET block == arg.block
            n == Len(block)
            counts == {Len(BlockCells(block[k])) : k \in 1..n}
            maxCols == Max(counts)
            minCols == Min(counts)
            Padded(k) == [c \in 1..maxCols |->
                IF c <= Len(BlockCells(block[k])) THEN BlockCells(block[k])[c] ELSE <<>>]
        IN  IF n >= 2 /\ maxCols >= 2 /\ maxCols - minCols <= 1
            THEN /\ Len(result.lines) = n + 1
                 /\ TableCells(result.lines[1]) = Padded(1)
                 /\ TableCells(result.lines[2]) = [c \in 1..maxCols |-> <<"-", "-", "-">>]
                 /\ \A k \in 2..n : TableCells(result.lines[k + 1]) = Padded(k)
            ELSE /\ Len(result.lines) = n
                 /\ \A k \in 1..n :
                       /\ ~Includes(result.lines[k], "\t")
                       /\ result.lines[k]
                            = normalizeListPrefix(Join(BlockCells(block[k]), <<" ">>))

\* C9 witness: a block of three rows of 3, 3 and 2 cells became a table of
\* four lines whose last row ends in an empty cell.
C9_Witness ==
    /\ Rendered
    /\ Len(arg.block) = 3
    /\ Len(BlockCells(arg.block[1])) = 3
    /\ Len(BlockCells(arg.block[2])) = 3
    /\ Len(BlockCells(arg.block[3])) = 2
    /\ Len(result.lines) = 4
    /\ Len(TableCells(result.lines[4])) = 3
    /\ TableCells(result.lines[4])[3] = <<>>

---------------------------------------------------------------------------
(* The loop body of linesToMarkdown applied to one line without tabs *)

Words(n) == Join([k \in 1..n |-> <<"a">>], <<" ">>)

HeadingTexts ==
    {<<"T">>, Repeat("a", 89), Repeat("a", 90), Repeat("a", 91),
     Words(14), Words(15),
     <<"-", " ", "a">>, <<"*", " ", "a">>, <<"-", "a">>,
     <<"1", ".", " ", "a">>, <<"1", ")", " ", "a">>, <<"1", ".", "a">>,
     <<"(", "1", ")", " ", "a">>, <<"u2022", " ", "a">>, <<"u2022">>,
     <<" ", "T", " ">>}

HeadingFontSizes ==
    {R(64, 100), R(1, 1), R(1279, 100), R(128, 10), R(1649, 100), R(165, 10),
     R(1949, 100), R(195, 10), R(24, 1)}

BodyFontSizes == {R(1, 2), R(1, 1), R(10, 1), R(12, 1)}

InitHeading ==
    /\ AppInit
    /\ arg \in {[fn |-> "linesToMarkdown",
                 line |-> [text |-> text, hasTabs |-> FALSE, fontSize |-> fontSize,
                           breakAfter |-> breakAfter],
                 bodyFontSize |-> bodyFontSize] :
                   text \in HeadingTexts, fontSize \in HeadingFontSizes,
                   breakAfter \in BOOLEAN, bodyFontSize \in BodyFontSizes}
    /\ result = NoResult

EmitLine ==
    /\ result = NoResult
    /\ result' = [fn |-> arg.fn, out |-> RenderLine(arg.line, arg.bodyFontSize)]
    /\ UNCHANGED <<arg, appVars>>

NextHeading == EmitLine

SpecHeading == InitHeading /\ [][NextHeading]_vars

Emitted == result.fn = "linesToMarkdown"

\* C10: a line without tabs is emitted as a heading iff its normalized text
\* has length <= 90, starts with no bullet or numbered-list marker, holds no
\* tab, has fontSize / bodyFontSize >= 1.28 and at most 14 words, for every
\* positive bodyFontSize, also below 1; the level is 1 when that ratio is
\* >= 1.95, 2 when >= 1.65, otherwise 3.
C10_HeadingIffRatio ==
    Emitted =>
        LET normalized == normalizeListPrefix(Trim(arg.line.text))
            plain == Trim(normalized)
            ratio == RDiv(arg.line.fontSize, arg.bodyFontSize)
            qualifies ==
                /\ Len(plain) <= 90
                /\ ~StartsWithBullet(plain)
                /\ ~StartsWithNumber(plain)
                /\ ~Includes(plain, "\t")
                /\ RLe(R(128, 100), ratio)
                /\ WordCount(plain) <= 14
            level == IF RLe(R(195, 100), ratio) THEN 1
                     ELSE IF RLe(R(165, 100), ratio) THEN 2 ELSE 3
        IN  result.out[1] = IF qualifies
                            THEN Repeat("#", level) \o <<" ">> \o normalized
                            ELSE normalized

---------------------------------------------------------------------------
(* The drag overlay.                                                       *)

\* const isDraggingPdf = computed(() => dragDepth.value > 0)
isDraggingPdf == dragDepth > 0

\* v-if="isDraggingPdf || isImportingPdf" of the overlay
OverlayShown == isDraggingPdf \/ isImportingPdf

\* the step is the synchronous part of a drop handler: it starts a call of
\* importPdf or reports that the drop carried no PDF
DropStep ==
    \/ Len(calls') > Len(calls)
    \/ importError' = ErrorDropAPdf /\ importError # ErrorDropAPdf

\* the step is the end of an import that went into pdfToMarkdown: catch or
\* the statements after the await, then finally
FinishStep(i) == calls[i].pc = "settled" /\ calls'[i].pc = "done"

\* C17: through any sequence of dragenter, dragleave and drop events
\* dragDepth is never negative; it is 0 right after every drop, with or
\* without a PDF in it, so that the overlay is then shown only if
\* isImportingPdf is true; and the step that ends an import, fulfilled or
\* rejected, leaves isImportingPdf false.
C17_DragDepthAndImportFlag ==
    [][/\ dragDepth >= 0
       /\ dragDepth' >= 0
       /\ DropStep =>
             /\ dragDepth' = 0
             /\ OverlayShown' => isImportingPdf'
       /\ \A i \in 1..Len(calls) :
             FinishStep(i) =>
                 /\ calls[i].outcome.state \in {"fulfilled", "rejected"}
                 /\ isImportingPdf' = FALSE
                 /\ dragDepth' = dragDepth]_vars

\* C17 witness: two drops were made; one import has succeeded and written
\* the editor, the other has failed afterwards with the error of pdf.js;
\* both have finished, the flag is down and a new drag has entered the page.
C17_Witness ==
    /\ Len(calls) = 2
    /\ \A i \in 1..Len(calls) : calls[i].pc = "done"
    /\ mdInput # InitialMarkdown
    /\ importError = [kind |-> "pdf.js error"]
    /\ importStatus = NoText
    /\ ~isImportingPdf
    /\ dragDepth = 1
    /\ OverlayShown

=============================================================================
